---------------------------- MODULE Spec2Model ----------------------------
(***************************************************************************)
(* The port-manager reconciliation engine: the config codec of the proxy   *)
(* Deployment's argument vector, the Reconciler (generateCache, run,       *)
(* updateProxy) and the Address Registrar (registerProxyAddress) with      *)
(* their shared capacity-5 channel.                                        *)
(*                                                                         *)
(* Go strings are sequences of one-character strings; positions returned   *)
(* by Index and LastIndex are 0-based as in package strings, -1 = absent.  *)
(***************************************************************************)
EXTENDS Integers, Sequences, FiniteSets, TLC

(***************************************************************************)
(* Package strings / strconv / fmt.                                        *)
(***************************************************************************)
Slice(s, lo, hi) == SubSeq(s, lo + 1, hi)

MatchAt(s, sub, i) ==
    /\ i + Len(sub) <= Len(s)
    /\ \A k \in 1..Len(sub) : s[i + k] = sub[k]

Index(s, sub) ==
    LET hits == {i \in 0..Len(s) : MatchAt(s, sub, i)}
    IN  IF hits = {} THEN -1 ELSE CHOOSE i \in hits : \A j \in hits : i <= j

LastIndex(s, sub) ==
    LET hits == {i \in 0..Len(s) : MatchAt(s, sub, i)}
    IN  IF hits = {} THEN -1 ELSE CHOOSE i \in hits : \A j \in hits : i >= j

RECURSIVE Split(_, _)
Split(s, sep) ==
    LET idx == Index(s, sep)
    IN  IF idx = -1 THEN <<s>>
        ELSE <<Slice(s, 0, idx)>> \o Split(Slice(s, idx + Len(sep), Len(s)), sep)

RECURSIVE SplitAfter(_, _)
SplitAfter(s, sep) ==
    LET idx == Index(s, sep)
    IN  IF idx = -1 THEN <<s>>
        ELSE <<Slice(s, 0, idx + Len(sep))>>
                 \o SplitAfter(Slice(s, idx + Len(sep), Len(s)), sep)

Digits == <<"0", "1", "2", "3", "4", "5", "6", "7", "8", "9">>

IsDigit(c) == \E d \in 1..10 : Digits[d] = c

DigitVal(c) == (CHOOSE d \in 1..10 : Digits[d] = c) - 1

RECURSIVE ParseDigits(_, _)
ParseDigits(s, acc) ==
    IF s = <<>> THEN acc ELSE ParseDigits(Tail(s), acc * 10 + DigitVal(Head(s)))

\* strconv.Atoi: an optional sign, then one or more decimal digits.
Atoi(s) ==
    LET signed == s # <<>> /\ Head(s) \in {"+", "-"}
        body   == IF signed THEN Tail(s) ELSE s
        ok     == body # <<>> /\ \A i \in 1..Len(body) : IsDigit(body[i])
        mag    == IF ok THEN ParseDigits(body, 0) ELSE 0
    IN  [ok |-> ok, val |-> IF signed /\ Head(s) = "-" THEN 0 - mag ELSE mag]

RECURSIVE ItoaNat(_)
ItoaNat(n) ==
    IF n < 10 THEN <<Digits[n + 1]>>
    ELSE ItoaNat(n \div 10) \o <<Digits[(n % 10) + 1]>>

\* fmt's %d verb.
Itoa(n) == IF n < 0 THEN <<"-">> \o ItoaNat(0 - n) ELSE ItoaNat(n)

UpperChars == <<"A", "B", "C", "D", "E", "F", "G", "H", "I", "J", "K", "L", "M",
                "N", "O", "P", "Q", "R", "S", "T", "U", "V", "W", "X", "Y", "Z">>

LowerChars == <<"a", "b", "c", "d", "e", "f", "g", "h", "i", "j", "k", "l", "m",
                "n", "o", "p", "q", "r", "s", "t", "u", "v", "w", "x", "y", "z">>

LowerChar(c) ==
    IF \E i \in 1..26 : UpperChars[i] = c
    THEN LowerChars[CHOOSE i \in 1..26 : UpperChars[i] = c]
    ELSE c

ToLower(s) == [i \in 1..Len(s) |-> LowerChar(s[i])]

EqualFold(a, b) == ToLower(a) = ToLower(b)

(***************************************************************************)
(* strings.go                                                              *)
(***************************************************************************)
RECURSIVE between(_, _, _)
between(value, a, b) ==
    LET posLast == Index(value, b)
    IN  IF posLast = -1 THEN <<>>
        ELSE LET posFirst == LastIndex(Slice(value, 0, posLast), a)
             IN  IF posFirst = -1 THEN <<>>
                 ELSE LET posFirstAdjusted == posFirst + Len(a)
                      IN  IF posFirstAdjusted >= posLast THEN <<>>
                          ELSE <<Slice(value, posFirstAdjusted, posLast)>>
                                   \o between(Slice(value, posLast + 1, Len(value)), a, b)

before(input, substr) ==
    LET pos == Index(input, substr)
    IN  IF pos = -1 THEN input ELSE Slice(input, 0, pos)

(***************************************************************************)
(* proxy.go: the config codec                                              *)
(***************************************************************************)
Http == <<"h", "t", "t", "p">>

Http2 == <<"h", "t", "t", "p", "2">>

Tcp == <<"t", "c", "p">>

Colon == <<":">>

Comma == <<",">>

Arrow == <<"=", ">">>

ArrowAmqp == <<"=", ">", "a", "m", "q", "p", ":">>

\* A PublicPort of the go-sdk: {Protocol, Queue, Port}.
PublicPort(protocol, port, queue) == [Protocol |-> protocol, Port |-> port, Queue |-> queue]

createProxyString(port) ==
    port.Protocol \o Colon \o Itoa(port.Port) \o ArrowAmqp \o port.Queue

\* A loop body that writes the separator before every item.
AppendItemSeparated(config, port) == config \o Comma \o createProxyString(port)

\* The loop body of createProxyConfig: append one item to the config so far.
AppendItem(config, port) ==
    LET separator == IF config = <<>> THEN <<>> ELSE Comma
    IN  config \o separator \o createProxyString(port)

\* createProxyConfig ranges over a Go map, whose iteration order is not
\* specified: order is the sequence of keys in which the range visits it.
RECURSIVE createProxyConfigFrom(_, _, _)
createProxyConfigFrom(config, ports, order) ==
    IF order = <<>> THEN config
    ELSE createProxyConfigFrom(AppendItem(config, ports[Head(order)]), ports, Tail(order))

createProxyConfig(ports, order) == createProxyConfigFrom(<<>>, ports, order)

\* Every order in which a range over the map m can visit its keys.
Orders(m) ==
    LET keys == DOMAIN m
        n    == Cardinality(keys)
    IN  {o \in [1..n -> keys] : \A i, j \in 1..n : i # j => o[i] # o[j]}

\* decodeMicroservice returns (*PublicPort, error): err is TRUE when the error
\* is non-nil, and then no PublicPort is returned.
DecodeError == [err |-> TRUE]

decodeMicroservice(configItem) ==
    LET protocol == before(configItem, Colon)
    IN  IF protocol # Http /\ protocol # Http2 /\ protocol # Tcp THEN DecodeError
        ELSE LET ports == between(configItem, protocol \o Colon, Arrow)
             IN  IF Len(ports) # 1 THEN DecodeError
                 ELSE LET port == Atoi(ports[1])
                      IN  IF ~port.ok THEN DecodeError
                          ELSE LET ids == SplitAfter(configItem, ArrowAmqp)
                               IN  IF Len(ids) # 2 THEN DecodeError
                                   ELSE [err |-> FALSE,
                                         port |-> PublicPort(protocol, port.val, ids[2])]


getProxyContainerArgs(config) ==
    << <<"n", "o", "d", "e">>,
       <<"/", "o", "p", "t", "/", "a", "p", "p", "-", "r", "o", "o", "t", "/",
         "b", "i", "n", "/", "s", "i", "m", "p", "l", "e", ".", "j", "s">>,
       config >>

\* The engine's own Deployment, read by getOwnerReference at init.
managerName == "port-manager"

EngineDeployment == [Name |-> managerName, UID |-> "uid-port-manager"]

getOwnerReference(engineDep) ==
    [APIVersion |-> "extensions/v1beta1", Kind |-> "Deployment",
     Name |-> engineDep.Name, UID |-> engineDep.UID]

owner == getOwnerReference(EngineDeployment)

\* A Kubernetes Get that returns a not-found error.
NotFound == [Kind |-> "NotFound"]

newProxyDeployment(name, config) ==
    [Kind |-> "Deployment", Name |-> name, Replicas |-> 1,
     Containers |-> << [Name |-> "proxy", Args |-> getProxyContainerArgs(config),
                        ImagePullPolicy |-> "Always",
                        Env |-> <<"ICPROXY_BRIDGE_HOST">>] >>,
     OwnerReferences |-> <<>>]

\* generateServicePort that names the port after the queue as it is spelt.
generateServicePortVerbatim(port, queue) ==
    [Name |-> queue, Port |-> port, TargetPort |-> port, Protocol |-> "TCP"]

generateServicePort(port, queue) ==
    [Name |-> ToLower(queue), Port |-> port, TargetPort |-> port, Protocol |-> "TCP"]

\* The loop of modifyServiceSpec and of updateProxyService: one ServicePort per
\* map entry, in the order the range visits the map.
ServicePorts(ports, order) ==
    [i \in 1..Len(order) |-> generateServicePort(ports[order[i]].Port, ports[order[i]].Queue)]

\* getTrafficPolicy that answers Cluster for every type but LoadBalancer.
getTrafficPolicyCluster(serviceType) ==
    IF serviceType = "LoadBalancer" THEN "Local" ELSE "Cluster"

getTrafficPolicy(serviceType) == IF serviceType = "LoadBalancer" THEN "Local" ELSE ""

newProxyService(name, ports, svcType, order) ==
    [Kind |-> "Service", Name |-> name, Type |-> svcType,
     ExternalTrafficPolicy |-> getTrafficPolicy(svcType),
     Selector |-> name, Ports |-> ServicePorts(ports, order),
     OwnerReferences |-> <<>>]

\* setOwnerReference that stamps nothing.
setOwnerReferenceNone(obj) == obj

setOwnerReference(obj) == [obj EXCEPT !.OwnerReferences = <<owner>>]

\* checkProxyDeployment: TRUE when it returns an error.
checkProxyDeployment(dep) ==
    \/ Len(dep.Containers) = 0
    \/ Len(dep.Containers[1].Args) # Len(getProxyContainerArgs(<<>>))

getProxyConfig(dep) ==
    IF checkProxyDeployment(dep) THEN [err |-> TRUE]
    ELSE [err |-> FALSE,
          config |-> dep.Containers[1].Args[Len(getProxyContainerArgs(<<>>))]]

\* updateProxyConfig that checks the shape and saves nothing.
updateProxyConfigStale(dep, config) ==
    IF checkProxyDeployment(dep) THEN [err |-> TRUE]
    ELSE [err |-> FALSE, dep |-> dep]

updateProxyConfig(dep, config) ==
    IF checkProxyDeployment(dep) THEN [err |-> TRUE]
    ELSE [err |-> FALSE,
          dep |-> [dep EXCEPT !.Containers[1].Args[Len(getProxyContainerArgs(<<>>))] = config]]

(***************************************************************************)
(* cmd/manager/main.go: the Options of the engine instances                *)
(***************************************************************************)
\* generateManagerOptions whose slice elements share one Options value: the
\* writes made for the second instance show in the first.
generateManagerOptionsShared(httpProxyAddress, tcpProxyAddress) ==
    LET opt == [ProxyServiceType |-> "LoadBalancer", ProxyExternalAddress |-> <<>>,
                ProtocolFilter |-> <<>>, ProxyName |-> "http-proxy"]
        last == [opt EXCEPT !.ProxyServiceType = "ClusterIP",
                            !.ProtocolFilter = <<"t", "c", "p">>,
                            !.ProxyName = "tcp-proxy",
                            !.ProxyExternalAddress = tcpProxyAddress]
    IN  IF httpProxyAddress # <<>> /\ tcpProxyAddress # <<>>
        THEN <<last, last>>
        ELSE <<opt>>

\* generateManagerOptions that leaves the second instance the default proxy
\* name.
generateManagerOptionsOneName(httpProxyAddress, tcpProxyAddress) ==
    LET opt == [ProxyServiceType |-> "LoadBalancer", ProxyExternalAddress |-> <<>>,
                ProtocolFilter |-> <<>>, ProxyName |-> "http-proxy"]
    IN  IF httpProxyAddress # <<>> /\ tcpProxyAddress # <<>>
        THEN << [opt EXCEPT !.ProxyServiceType = "ClusterIP", !.ProtocolFilter = Http,
                            !.ProxyExternalAddress = httpProxyAddress],
                [opt EXCEPT !.ProxyServiceType = "ClusterIP", !.ProtocolFilter = Tcp,
                            !.ProxyExternalAddress = tcpProxyAddress] >>
        ELSE <<opt>>

generateManagerOptions(httpProxyAddress, tcpProxyAddress) ==
    LET opt == [ProxyServiceType |-> "LoadBalancer", ProxyExternalAddress |-> <<>>,
                ProtocolFilter |-> <<>>, ProxyName |-> "http-proxy"]
    IN  IF httpProxyAddress # <<>> /\ tcpProxyAddress # <<>>
        THEN << [opt EXCEPT !.ProxyServiceType = "ClusterIP", !.ProtocolFilter = Http,
                            !.ProxyName = "http-proxy",
                            !.ProxyExternalAddress = httpProxyAddress],
                [opt EXCEPT !.ProxyServiceType = "ClusterIP", !.ProtocolFilter = Tcp,
                            !.ProxyName = "tcp-proxy",
                            !.ProxyExternalAddress = tcpProxyAddress] >>
        ELSE <<opt>>

\* Values of HTTP_PROXY_ADDRESS and TCP_PROXY_ADDRESS (empty = unset).
EnvAddresses == {<<>>, <<"a">>, <<"b">>}

\* Every Options value some environment gives some engine instance.
AllOptions ==
    {generateManagerOptions(h, t)[i] :
        <<h, t, i>> \in {x \in EnvAddresses \X EnvAddresses \X {1, 2} :
                            x[3] <= Len(generateManagerOptions(x[1], x[2]))}}

(***************************************************************************)
(* The Controller's inventory of public ports                              *)
(***************************************************************************)
Q1 == <<"q", "1">>

Q2 == <<"Q", "-", "2">>

PublicPorts ==
    {PublicPort(Http, 80, Q1), PublicPort(Http, 80, Q2), PublicPort(Tcp, 80, Q1),
     PublicPort(Http2, 443, Q2)}

\* The lists GetAllMicroservicePublicPorts can return when the Controller's
\* users publish ports among those of catalog: ports are unique in a list.
Responses(cat) ==
    {<<>>} \cup {<<a>> : a \in cat}
           \cup {<<x[1], x[2]>> : x \in {y \in cat \X cat : y[1].Port < y[2].Port}}

\* The protocol filter applied to the fetched list.
FilterPorts(backendPorts, filter) ==
    IF filter = <<>> THEN backendPorts
    ELSE SelectSeq(backendPorts, LAMBDA p : EqualFold(p.Protocol, filter))

(***************************************************************************)
(* State                                                                   *)
(***************************************************************************)
VARIABLES
    opt,          \* the instance's Options, fixed at construction
    peer,         \* the other Manager of the process when main runs two: its
                  \*   Options, its fields, and the objects it sees in the cluster
    catalog,      \* the public ports the Controller's users publish and withdraw
    cache,        \* mgr.cache: port -> PublicPort
    addressChan,  \* mgr.addressChan, the signals in the channel, oldest first
    recPc,        \* the Reconciler: "start", "idle", "send" (at the channel send
                  \*   of updateProxy) or "exited" (Run has returned an error)
    regPc,        \* the Registrar: "recv" (at the channel receive) or "retry"
                  \*   (at the channel send of a self-retry)
    dep,          \* the live proxy Deployment, or NotFound
    svc,          \* the live proxy Service, or NotFound
    lastTick,     \* what the last call of run did: the Controller's response (raw),
                  \*   the ports run kept of it (resp), whether
                  \*   it called updateProxy, how it returned, and whether the
                  \*   call before it had returned nil for the same fetched ports
    ops,          \* the Kubernetes writes the last call of run issued
    lbAddr,       \* the address the load balancer currently has (a generation)
    resolved,     \* the address WaitForLoadBalancer returned last (0 = none yet)
    registered,   \* the address the Controller holds as default proxy (0 = none)
    regLog,       \* the outcome of the Registrar's last iteration, and of the
                  \*   one before it
    healthy       \* once TRUE, LB discovery and the set-proxy RPC succeed

vars == <<opt, peer, catalog, cache, addressChan, recPc, regPc, dep, svc, lastTick, ops,
          lbAddr, resolved, registered, regLog, healthy>>

reconcilerVars == <<cache, recPc, dep, svc, lastTick, ops>>

registrarVars == <<regPc, resolved, registered, regLog>>

\* make(chan interface{}, 5)
ChanCap == 5

\* The load balancer's address changes at most this often.
MaxAddr == 2

\* The payload of every signal the code sends.
Nil == "nil"

EmptyCache == <<>>

(***************************************************************************)
(* Manager.generateCache                                                   *)
(***************************************************************************)
\* A decode loop that stops after the first item.
DecodeFirstItem(c, configItems) ==
    IF configItems = <<>> THEN [err |-> FALSE, cache |-> c]
    ELSE LET port == decodeMicroservice(Head(configItems))
         IN  IF port.err THEN [err |-> TRUE, cache |-> c]
             ELSE [err |-> FALSE,
                   cache |-> [x \in DOMAIN c \cup {port.port.Port} |->
                                 IF x = port.port.Port THEN port.port ELSE c[x]]]

\* The decode loop: stops at the first item that does not decode, keeping
\* what it has stored so far.
RECURSIVE DecodeItems(_, _)
DecodeItems(c, configItems) ==
    IF configItems = <<>> THEN [err |-> FALSE, cache |-> c]
    ELSE LET port == decodeMicroservice(Head(configItems))
         IN  IF port.err THEN [err |-> TRUE, cache |-> c]
             ELSE DecodeItems([x \in DOMAIN c \cup {port.port.Port} |->
                                  IF x = port.port.Port THEN port.port ELSE c[x]],
                              Tail(configItems))

\* getErr: the Get of the Deployment fails with an error other than not-found.
generateCache(foundDep, getErr) ==
    IF getErr THEN [err |-> TRUE, cache |-> EmptyCache]
    ELSE IF foundDep = NotFound THEN [err |-> FALSE, cache |-> EmptyCache]
    ELSE LET config == getProxyConfig(foundDep)
         IN  IF config.err THEN [err |-> TRUE, cache |-> EmptyCache]
             ELSE DecodeItems(EmptyCache, Split(config.config, Comma))

(***************************************************************************)
(* Manager.run: the diff of the fetched ports against the cache            *)
(***************************************************************************)
RECURSIVE RunUpward(_, _, _)
RunUpward(c, cacheReconciled, backendPorts) ==
    IF backendPorts = <<>> THEN [cache |-> c, cacheReconciled |-> cacheReconciled]
    ELSE LET newPort == Head(backendPorts)
             exists  == newPort.Port \in DOMAIN c
             stored  == [x \in DOMAIN c \cup {newPort.Port} |->
                            IF x = newPort.Port THEN newPort ELSE c[x]]
         IN  IF exists /\ c[newPort.Port].Queue = newPort.Queue
                       /\ c[newPort.Port].Protocol = newPort.Protocol
             THEN RunUpward(c, cacheReconciled, Tail(backendPorts))
             ELSE RunUpward(stored, TRUE, Tail(backendPorts))

\* run without its second loop: no cached port is ever deleted.
RunDownwardKeep(c, cacheReconciled, backendPorts) ==
    [cache |-> c, cacheReconciled |-> cacheReconciled]

RunDownward(c, cacheReconciled, backendPorts) ==
    LET backendPortMap == {backendPorts[i].Port : i \in 1..Len(backendPorts)}
        kept           == DOMAIN c \cap backendPortMap
    IN  [cache |-> [x \in kept |-> c[x]],
         cacheReconciled |-> cacheReconciled \/ kept # DOMAIN c]

\* run with cacheReconciled set whatever the diff finds.
DiffCacheAlwaysDirty(c, backendPorts) ==
    [cache |-> RunDownward(RunUpward(c, FALSE, backendPorts).cache, FALSE, backendPorts).cache,
     cacheReconciled |-> TRUE]

DiffCache(c, backendPorts) ==
    LET up == RunUpward(c, FALSE, backendPorts)
    IN  RunDownward(up.cache, up.cacheReconciled, backendPorts)

(***************************************************************************)
(* Manager.updateProxy                                                     *)
(***************************************************************************)
\* A Kubernetes write the engine issues; ok = the API server accepted it.
Op(verb, kind, obj, ok) == [verb |-> verb, kind |-> kind, obj |-> obj, ok |-> ok]

\* fail names the first Kubernetes call of this updateProxy that returns an
\* error other than not-found.
\* "goneDep" and "goneSvc": the object that updateProxy's Get found is gone when
\* its Delete arrives, and the Delete answers not-found.
FailPoints == {"none", "getDep", "writeDep", "getSvc", "writeSvc", "goneDep", "goneSvc"}

\* What k8sClient.Delete answers.
DeleteAnswer(fail, write, gone) ==
    IF fail = write THEN "error" ELSE IF fail = gone THEN "notFound" ELSE "nil"

\* Manager.delete: TRUE when it returns an error. It returns the error of the
\* Delete call, the not-found one included.
delete(answer) == answer # "nil"

updateProxyDeployment(c, foundDep, fail, order) ==
    LET config == createProxyConfig(c, order)
        ok     == fail # "writeDep"
    IN  IF Len(config) = 0
        THEN LET answer == DeleteAnswer(fail, "writeDep", "goneDep")
             IN  [err |-> delete(answer),
                  dep |-> IF answer = "error" THEN foundDep ELSE NotFound,
                  ops |-> <<Op("delete", "Deployment", NotFound, answer = "nil")>>]
        ELSE LET saved == updateProxyConfig(foundDep, config)
             IN  IF saved.err THEN [err |-> TRUE, dep |-> foundDep, ops |-> <<>>]
                 ELSE [err |-> ~ok, dep |-> IF ok THEN saved.dep ELSE foundDep,
                       ops |-> <<Op("update", "Deployment", saved.dep, ok)>>]

DeploymentBranch(c, foundDep, fail, order) ==
    IF fail = "getDep" THEN [err |-> TRUE, dep |-> foundDep, ops |-> <<>>]
    ELSE IF foundDep # NotFound THEN updateProxyDeployment(c, foundDep, fail, order)
    ELSE LET new == setOwnerReference(
                        newProxyDeployment(opt.ProxyName, createProxyConfig(c, order)))
             ok  == fail # "writeDep"
         IN  [err |-> ~ok, dep |-> IF ok THEN new ELSE foundDep,
              ops |-> <<Op("create", "Deployment", new, ok)>>]

\* The object with the field f set to v.
WithField(obj, f, v) == [x \in DOMAIN obj \cup {f} |-> IF x = f THEN v ELSE obj[x]]

\* The object carries a finalizer.
HasFinalizer(obj) == obj # NotFound /\ "Finalizers" \in DOMAIN obj

\* The object is marked for deletion and still answers a Get.
Terminating(obj) == obj # NotFound /\ "DeletionTimestamp" \in DOMAIN obj

\* What the API server holds once k8sClient.Delete has returned nil: nothing,
\* or, while a finalizer holds the object, the object marked for deletion.
Deleted(obj) ==
    IF HasFinalizer(obj) THEN WithField(obj, "DeletionTimestamp", "set") ELSE NotFound

\* updateProxyService that updates the Service whatever its rebuilt port list.
updateProxyServiceKeep(c, foundSvc, fail, order) ==
    LET new == [foundSvc EXCEPT !.Ports = ServicePorts(c, order)]
        ok  == fail # "writeSvc"
    IN  [err |-> ~ok, svc |-> IF ok THEN new ELSE foundSvc,
         ops |-> <<Op("update", "Service", new, ok)>>, signal |-> FALSE]

updateProxyService(c, foundSvc, fail, order) ==
    LET ports == ServicePorts(c, order)
        ok    == fail # "writeSvc"
    IN  IF Len(ports) = 0
        THEN LET answer == DeleteAnswer(fail, "writeSvc", "goneSvc")
             IN  [err |-> delete(answer),
                  svc |-> IF answer = "error" THEN foundSvc
                          ELSE IF answer = "nil" THEN Deleted(foundSvc) ELSE NotFound,
                  ops |-> <<Op("delete", "Service", NotFound, answer = "nil")>>,
                  signal |-> FALSE]
        ELSE LET new == [foundSvc EXCEPT !.Ports = ports]
             IN  [err |-> ~ok, svc |-> IF ok THEN new ELSE foundSvc,
                  ops |-> <<Op("update", "Service", new, ok)>>, signal |-> FALSE]

ServiceBranch(c, foundSvc, fail, order) ==
    IF fail = "getSvc" THEN [err |-> TRUE, svc |-> foundSvc, ops |-> <<>>, signal |-> FALSE]
    ELSE IF foundSvc # NotFound THEN updateProxyService(c, foundSvc, fail, order)
    ELSE LET new == setOwnerReference(
                        newProxyService(opt.ProxyName, c, opt.ProxyServiceType, order))
             ok  == fail # "writeSvc"
         IN  [err |-> ~ok, svc |-> IF ok THEN new ELSE foundSvc,
              ops |-> <<Op("create", "Service", new, ok)>>, signal |-> ok]

\* updateProxy that goes on to the Service branch after an error of the
\* Deployment branch.
updateProxyBothBranches(c, foundDep, foundSvc, fail, depOrder, svcOrder) ==
    LET d == DeploymentBranch(c, foundDep, fail, depOrder)
        s == ServiceBranch(c, foundSvc, fail, svcOrder)
    IN  [err |-> d.err \/ s.err, dep |-> d.dep, svc |-> s.svc, ops |-> d.ops \o s.ops,
         signal |-> s.signal /\ ~d.err]

\* The outcome of updateProxy up to its channel send: signal says that the send
\* is what remains to be done.
updateProxy(c, foundDep, foundSvc, fail, depOrder, svcOrder) ==
    LET d == DeploymentBranch(c, foundDep, fail, depOrder)
    IN  IF d.err THEN [err |-> TRUE, dep |-> d.dep, svc |-> foundSvc, ops |-> d.ops,
                       signal |-> FALSE]
        ELSE LET s == ServiceBranch(c, foundSvc, fail, svcOrder)
             IN  [err |-> s.err, dep |-> d.dep, svc |-> s.svc, ops |-> d.ops \o s.ops,
                  signal |-> s.signal]

(***************************************************************************)
(* Construction: New, init                                                 *)
(***************************************************************************)
NoTick == [fetched |-> FALSE, raw |-> <<>>, resp |-> <<>>, updated |-> FALSE,
           result |-> "none", repeat |-> FALSE]

NoRegistration == [outcome |-> "none", prev |-> "none"]

\* init's probe: one signal if the Get of the proxy Service returns no error.
InitProbe(foundSvc, getErr) ==
    IF ~getErr /\ foundSvc # NotFound THEN <<Nil>> ELSE <<>>

\* Config strings a proxy Deployment can hold when the engine starts: what an
\* earlier run wrote, or what an operator edited by hand.
InitConfigs ==
    {<<>>,
     createProxyString(PublicPort(Tcp, 443, Q1)),
     createProxyString(PublicPort(Http, 80, Q1)) \o Comma \o Tcp \o Colon,
     Tcp \o Colon \o <<"9">> \o createProxyString(PublicPort(Tcp, 80, Q1))}

InitDeployments(name) ==
    {NotFound}
        \cup {setOwnerReference(newProxyDeployment(name, c)) : c \in InitConfigs}
        \cup {[setOwnerReference(newProxyDeployment(name, <<>>)) EXCEPT !.Containers = <<>>],
              [setOwnerReference(newProxyDeployment(name, <<>>)) EXCEPT
                  !.Containers[1].Args = SubSeq(getProxyContainerArgs(<<>>), 1, 2)]}

InitServices(name, svcType) ==
    {NotFound,
     setOwnerReference(newProxyService(name, [x \in {443} |-> PublicPort(Tcp, 443, Q1)],
                                       svcType, <<443>>))}

\* main runs one Manager only.
NoPeer == [opt |-> "none"]

\* The state New returns in, whatever the cluster holds.
Constructed ==
    /\ opt \in AllOptions
    /\ dep \in InitDeployments(opt.ProxyName)
    /\ svc \in InitServices(opt.ProxyName, opt.ProxyServiceType)
    /\ cache = EmptyCache
    /\ \E getErr \in BOOLEAN : addressChan = InitProbe(svc, getErr)
    /\ recPc = "start"
    /\ regPc = "recv"
    /\ lastTick = NoTick
    /\ ops = <<>>
    /\ lbAddr = 1
    /\ resolved = 0
    /\ registered = 0
    /\ regLog = NoRegistration

\* The Reconciler against every inventory, beside a load balancer and a
\* Controller that answer the Registrar.
Init ==
    /\ Constructed
    /\ peer = NoPeer
    /\ catalog = PublicPorts
    /\ healthy = TRUE

\* The Registrar against a load balancer and a Controller that fail, beside a
\* Reconciler that follows one public port on an empty cluster.
RegistrarInit ==
    /\ Constructed
    /\ peer = NoPeer
    /\ opt = generateManagerOptions(<<>>, <<>>)[1]
    /\ dep = NotFound
    /\ catalog = {PublicPort(Http, 80, Q1)}
    /\ healthy = FALSE

(***************************************************************************)
(* The Reconciler: Manager.Run                                             *)
(***************************************************************************)
\* Run's prologue: the cache rebuild. An error makes Run return it.
GenerateCache ==
    /\ recPc = "start"
    /\ \E getErr \in BOOLEAN :
          LET r == generateCache(dep, getErr)
          IN  /\ cache' = r.cache
              /\ recPc' = IF r.err THEN "exited" ELSE "idle"
    /\ UNCHANGED <<opt, peer, catalog, addressChan, dep, svc, lastTick, ops>>
    /\ UNCHANGED <<regPc, resolved, registered, regLog, lbAddr, healthy>>

\* One call of run from Run's loop, up to the channel send of updateProxy.
\* An error makes Run return it.
Tick ==
    /\ recPc = "idle"
    /\ \E fetchErr \in BOOLEAN :
          IF fetchErr
          THEN /\ recPc' = "exited"
               /\ lastTick' = [NoTick EXCEPT !.result = "error"]
               /\ ops' = <<>>
               /\ UNCHANGED <<cache, dep, svc>>
          ELSE \E resp \in Responses(catalog) :
                  LET backendPorts == FilterPorts(resp, opt.ProtocolFilter)
                      d            == DiffCache(cache, backendPorts)
                      repeat       == /\ lastTick.fetched
                                      /\ lastTick.result = "ok"
                                      /\ lastTick.resp = backendPorts
                  IN  /\ cache' = d.cache
                      /\ IF ~d.cacheReconciled
                         THEN /\ recPc' = "idle"
                              /\ lastTick' = [fetched |-> TRUE, raw |-> resp, resp |-> backendPorts,
                                              updated |-> FALSE, result |-> "ok",
                                              repeat |-> repeat]
                              /\ ops' = <<>>
                              /\ UNCHANGED <<dep, svc>>
                         ELSE \E fail \in FailPoints :
                              \E depOrder \in Orders(d.cache), svcOrder \in Orders(d.cache) :
                                 LET u == updateProxy(d.cache, dep, svc, fail,
                                                      depOrder, svcOrder)
                                 IN  /\ dep' = u.dep
                                     /\ svc' = u.svc
                                     /\ ops' = u.ops
                                     /\ recPc' = IF u.err THEN "exited"
                                                 ELSE IF u.signal THEN "send" ELSE "idle"
                                     /\ lastTick' =
                                           [fetched |-> TRUE, raw |-> resp, resp |-> backendPorts,
                                            updated |-> TRUE,
                                            result |-> IF u.err THEN "error"
                                                       ELSE IF u.signal THEN "pending"
                                                       ELSE "ok",
                                            repeat |-> repeat]
    /\ UNCHANGED <<opt, peer, catalog, addressChan>>
    /\ UNCHANGED <<regPc, resolved, registered, regLog, lbAddr, healthy>>

\* updateProxy's send after it has created the Service; it blocks while the
\* channel is full.
Send ==
    /\ recPc = "send"
    /\ Len(addressChan) < ChanCap
    /\ addressChan' = Append(addressChan, Nil)
    /\ recPc' = "idle"
    /\ lastTick' = [lastTick EXCEPT !.result = "ok"]
    /\ UNCHANGED <<opt, peer, catalog, cache, dep, svc, ops>>
    /\ UNCHANGED <<regPc, resolved, registered, regLog, lbAddr, healthy>>

(***************************************************************************)
(* The Address Registrar: Manager.registerProxyAddress                     *)
(***************************************************************************)
\* A Registrar that keeps passing the address it registered first.
AddressToRegisterStale(ip, previous) == IF previous # 0 THEN previous ELSE ip

\* The ip passed to PutDefaultProxy: the one WaitForLoadBalancer has just
\* returned.
AddressToRegister(ip, previous) == ip

\* What a self-retry sends.
RetrySignal(ip) == Nil

\* An iteration that, beside registering the address, withdraws the public
\* ports from the Controller.
RegisterWithdrawing ==
    /\ regPc = "recv"
    /\ addressChan # <<>>
    /\ addressChan' = Tail(addressChan)
    /\ \E lbOk \in (IF healthy THEN {TRUE} ELSE BOOLEAN),
          putOk \in (IF healthy THEN {TRUE} ELSE BOOLEAN) :
          IF ~lbOk
          THEN /\ regPc' = "retry"
               /\ regLog' = [outcome |-> "lbTimeout", prev |-> regLog.outcome]
               /\ UNCHANGED <<resolved, registered>>
          ELSE /\ resolved' = lbAddr
               /\ IF ~putOk
                  THEN /\ regPc' = "retry"
                       /\ regLog' = [outcome |-> "putFailed", prev |-> regLog.outcome]
                       /\ UNCHANGED registered
                  ELSE /\ regPc' = "recv"
                       /\ regLog' = [outcome |-> "registered", prev |-> regLog.outcome]
                       /\ registered' = lbAddr
    /\ catalog' = {}
    /\ UNCHANGED <<opt, peer, lbAddr, healthy>>
    /\ UNCHANGED reconcilerVars

\* One iteration up to its end or to the send of its self-retry: the receive,
\* WaitForLoadBalancer, PutDefaultProxy.
Register ==
    /\ regPc = "recv"
    /\ addressChan # <<>>
    /\ addressChan' = Tail(addressChan)
    /\ \E lbOk \in (IF healthy THEN {TRUE} ELSE BOOLEAN),
          putOk \in (IF healthy THEN {TRUE} ELSE BOOLEAN) :
          IF ~lbOk
          THEN /\ regPc' = "retry"
               /\ regLog' = [outcome |-> "lbTimeout", prev |-> regLog.outcome]
               /\ UNCHANGED <<resolved, registered>>
          ELSE /\ resolved' = lbAddr
               /\ IF ~putOk
                  THEN /\ regPc' = "retry"
                       /\ regLog' = [outcome |-> "putFailed", prev |-> regLog.outcome]
                       /\ UNCHANGED registered
                  ELSE /\ regPc' = "recv"
                       /\ regLog' = [outcome |-> "registered", prev |-> regLog.outcome]
                       /\ registered' = AddressToRegister(lbAddr, registered)
    /\ UNCHANGED <<opt, peer, catalog, lbAddr, healthy>>
    /\ UNCHANGED reconcilerVars

\* The self-retry's send, after the 5 s sleep; it blocks while the channel is
\* full.
Retry ==
    /\ regPc = "retry"
    /\ Len(addressChan) < ChanCap
    /\ addressChan' = Append(addressChan, RetrySignal(resolved))
    /\ regPc' = "recv"
    /\ UNCHANGED <<opt, peer, catalog, resolved, registered, regLog, lbAddr, healthy>>
    /\ UNCHANGED reconcilerVars

(***************************************************************************)
(* The environment                                                         *)
(***************************************************************************)
\* The process is restarted: New and init run again against the live cluster.
Restart ==
    /\ recPc # "start"
    /\ cache' = EmptyCache
    /\ \E getErr \in BOOLEAN : addressChan' = InitProbe(svc, getErr)
    /\ recPc' = "start"
    /\ regPc' = "recv"
    /\ lastTick' = NoTick
    /\ ops' = <<>>
    /\ resolved' = 0
    /\ regLog' = NoRegistration
    /\ UNCHANGED <<opt, peer, catalog, dep, svc, lbAddr, registered, healthy>>

\* The load balancer gets a new address.
LBChange ==
    /\ lbAddr < MaxAddr
    /\ lbAddr' = lbAddr + 1
    /\ UNCHANGED <<opt, peer, catalog, addressChan, healthy>>
    /\ UNCHANGED reconcilerVars
    /\ UNCHANGED registrarVars

\* From now on LB discovery and the set-proxy RPC succeed.
Heal ==
    /\ ~healthy
    /\ healthy' = TRUE
    /\ UNCHANGED <<opt, peer, catalog, addressChan, lbAddr>>
    /\ UNCHANGED reconcilerVars
    /\ UNCHANGED registrarVars

\* An operator edits the live proxy Deployment by hand while the engine runs
\* and leaves it without containers, or with an argument short.
EditDeployment ==
    /\ recPc = "idle"
    /\ dep # NotFound
    /\ ~checkProxyDeployment(dep)
    /\ dep' \in {[dep EXCEPT !.Containers = <<>>],
                 [dep EXCEPT !.Containers[1].Args = SubSeq(@, 1, Len(@) - 1)]}
    /\ UNCHANGED <<opt, peer, catalog, cache, addressChan, recPc, svc, lastTick, ops>>
    /\ UNCHANGED <<lbAddr, healthy>>
    /\ UNCHANGED registrarVars

\* An operator, or the garbage collector, deletes the live proxy Deployment
\* while the engine runs.
DeleteDeployment ==
    /\ recPc = "idle"
    /\ dep # NotFound
    /\ dep' = NotFound
    /\ UNCHANGED <<opt, peer, catalog, cache, addressChan, recPc, svc, lastTick, ops>>
    /\ UNCHANGED <<lbAddr, healthy>>
    /\ UNCHANGED registrarVars

\* The cloud controller puts its load-balancer cleanup finalizer on the live
\* proxy Service.
AddFinalizer ==
    /\ svc # NotFound
    /\ ~HasFinalizer(svc)
    /\ svc.Type = "LoadBalancer"
    /\ svc' = WithField(svc, "Finalizers", <<"service.kubernetes.io/load-balancer-cleanup">>)
    /\ UNCHANGED <<opt, peer, catalog, cache, addressChan, recPc, dep, lastTick, ops>>
    /\ UNCHANGED <<lbAddr, healthy>>
    /\ UNCHANGED registrarVars

\* The cloud controller has released the load balancer and removes its
\* finalizer: the API server drops the Service that was marked for deletion.
Finalize ==
    /\ Terminating(svc)
    /\ svc' = NotFound
    /\ UNCHANGED <<opt, peer, catalog, cache, addressChan, recPc, dep, lastTick, ops>>
    /\ UNCHANGED <<lbAddr, healthy>>
    /\ UNCHANGED registrarVars

Next ==
    \/ GenerateCache
    \/ Tick
    \/ Send
    \/ Register
    \/ Restart

Spec == Init /\ [][Next]_vars

RegistrarNext ==
    \/ GenerateCache
    \/ Tick
    \/ Send
    \/ Register
    \/ Retry
    \/ LBChange
    \/ Heal

RegistrarSpec == RegistrarInit /\ [][RegistrarNext]_vars

\* The Go scheduler runs a goroutine that can take its channel step: a receive
\* with a signal waiting, a send with room in the buffer.
FairRegistrarSpec ==
    /\ RegistrarInit
    /\ [][RegistrarNext]_vars
    /\ WF_vars(Send)
    /\ WF_vars(Register)
    /\ WF_vars(Retry)

\* The Reconciler started on whatever Deployment the cluster holds, beside a
\* Controller whose users have published one port.
HealInit ==
    /\ Constructed
    /\ peer = NoPeer
    /\ opt = generateManagerOptions(<<>>, <<>>)[1]
    /\ catalog = {PublicPort(Http, 80, Q1)}
    /\ healthy = TRUE

HealNext ==
    \/ GenerateCache
    \/ Tick
    \/ Send
    \/ Register

\* The Go scheduler runs a goroutine that can take its channel step. Run's own
\* steps need no condition here: the behaviours of interest are those in which
\* Run has returned, where neither GenerateCache nor Tick is enabled again.
FairHealSpec ==
    /\ HealInit
    /\ [][HealNext]_vars
    /\ WF_vars(Send)
    /\ WF_vars(Register)

\* The Reconciler beside an operator who edits the Deployment, and a
\* Controller whose users publish and withdraw two ports.
ShapeInit ==
    /\ Constructed
    /\ peer = NoPeer
    /\ opt = generateManagerOptions(<<>>, <<>>)[1]
    /\ catalog = {PublicPort(Http, 80, Q1), PublicPort(Http2, 443, Q2)}
    /\ healthy = TRUE

ShapeNext ==
    \/ GenerateCache
    \/ Tick
    \/ Send
    \/ Register
    \/ EditDeployment

ShapeSpec == ShapeInit /\ [][ShapeNext]_vars

\* The Reconciler started on whatever Deployment the cluster holds, beside a
\* Controller that spells the protocol of one port in capitals, and the queue
\* of another as the first one's but for the letter case.
CapitalInit ==
    /\ Constructed
    /\ peer = NoPeer
    /\ opt = generateManagerOptions(<<>>, <<>>)[1]
    /\ catalog = {PublicPort(<<"H", "T", "T", "P">>, 80, Q1),
                  PublicPort(Tcp, 443, <<"Q", "1">>)}
    /\ healthy = TRUE

CapitalSpec == CapitalInit /\ [][Next]_vars

\* The Reconciler beside an operator who deletes the Deployment.
OperatorNext ==
    \/ GenerateCache
    \/ Tick
    \/ Send
    \/ Register
    \/ DeleteDeployment

OperatorSpec == ShapeInit /\ [][OperatorNext]_vars

\* The Reconciler beside a cloud controller that holds the Service with a
\* finalizer.
FinalizerNext ==
    \/ GenerateCache
    \/ Tick
    \/ Send
    \/ Register
    \/ AddFinalizer
    \/ Finalize

FinalizerSpec == ShapeInit /\ [][FinalizerNext]_vars

\* The Manager the scheduler is running, as the other one will find it.
Instance ==
    [opt |-> opt, cache |-> cache, addressChan |-> addressChan, recPc |-> recPc,
     regPc |-> regPc, dep |-> dep, svc |-> svc, lastTick |-> lastTick, ops |-> ops,
     resolved |-> resolved, regLog |-> regLog]

\* main's loop "go mgr.Run()" over two Managers: the scheduler turns to the
\* goroutines of the other Manager. Each Manager gets the objects of its own
\* proxy name from the cluster; under one name both get the same objects.
Switch ==
    /\ peer # NoPeer
    /\ peer' = Instance
    /\ opt' = peer.opt
    /\ cache' = peer.cache
    /\ addressChan' = peer.addressChan
    /\ recPc' = peer.recPc
    /\ regPc' = peer.regPc
    /\ dep' = IF peer.opt.ProxyName = opt.ProxyName THEN dep ELSE peer.dep
    /\ svc' = IF peer.opt.ProxyName = opt.ProxyName THEN svc ELSE peer.svc
    /\ lastTick' = peer.lastTick
    /\ ops' = peer.ops
    /\ resolved' = peer.resolved
    /\ regLog' = peer.regLog
    /\ UNCHANGED <<catalog, lbAddr, registered, healthy>>

\* The two Managers main builds when both proxy addresses are set, on an empty
\* cluster, beside a Controller whose users publish http and tcp ports.
DualInit ==
    /\ Constructed
    /\ opt = generateManagerOptions(<<"a">>, <<"b">>)[1]
    /\ dep = NotFound
    /\ svc = NotFound
    /\ peer = [Instance EXCEPT !.opt = generateManagerOptions(<<"a">>, <<"b">>)[2]]
    /\ catalog = {PublicPort(Http, 80, Q1), PublicPort(Tcp, 443, Q2)}
    /\ healthy = TRUE

\* The same two Managers beside a Controller whose users publish an http2 port
\* and a tcp port.
Http2Init ==
    /\ Constructed
    /\ opt = generateManagerOptions(<<"a">>, <<"b">>)[1]
    /\ dep = NotFound
    /\ svc = NotFound
    /\ peer = [Instance EXCEPT !.opt = generateManagerOptions(<<"a">>, <<"b">>)[2]]
    /\ catalog = {PublicPort(Http2, 80, Q1), PublicPort(Tcp, 443, Q2)}
    /\ healthy = TRUE

\* The steps of the two Reconcilers. The Registrars read and write neither
\* cache nor cluster object; here they are never scheduled, so a Reconciler
\* blocks on its sixth send.
DualNext ==
    \/ GenerateCache
    \/ Tick
    \/ Send
    \/ Switch

DualSpec == DualInit /\ [][DualNext]_vars

Http2Spec == Http2Init /\ [][DualNext]_vars

\* Items a proxy Deployment's last argument can hold when the engine starts:
\* encodings of public ports, whole and cut short, and encodings of ports
\* whose queue holds the text of a delimiter.
ConfigItems ==
    {createProxyString(PublicPort(Tcp, 80, Q1)),
     createProxyString(PublicPort(Http, 80, Q2)),
     createProxyString(PublicPort(Tcp, 80, <<>>)),
     Tcp \o Colon \o <<"8", "0">> \o Arrow,
     Tcp \o Colon \o <<"8", "0">>,
     createProxyString(PublicPort(Http2, 443, <<"q">> \o Arrow \o <<"1">>)),
     createProxyString(PublicPort(Http2, 443, Q1 \o ArrowAmqp \o Q1))}

\* One item, or the encoding of port 80 on tcp followed by a second item.
DecodeConfigs ==
    ConfigItems
        \cup {createProxyString(PublicPort(Tcp, 80, Q1)) \o Comma \o item :
                 item \in ConfigItems}

\* The engine started on a Deployment that holds one of these arguments.
DecodeInit ==
    /\ opt = generateManagerOptions(<<>>, <<>>)[1]
    /\ peer = NoPeer
    /\ dep \in {setOwnerReference(newProxyDeployment(opt.ProxyName, c)) : c \in DecodeConfigs}
    /\ svc \in InitServices(opt.ProxyName, opt.ProxyServiceType)
    /\ cache = EmptyCache
    /\ \E getErr \in BOOLEAN : addressChan = InitProbe(svc, getErr)
    /\ recPc = "start"
    /\ regPc = "recv"
    /\ lastTick = NoTick
    /\ ops = <<>>
    /\ lbAddr = 1
    /\ resolved = 0
    /\ registered = 0
    /\ regLog = NoRegistration
    /\ catalog = {PublicPort(Http, 80, Q1)}
    /\ healthy = TRUE

DecodeNext ==
    \/ GenerateCache
    \/ Tick
    \/ Send
    \/ Register

DecodeSpec == DecodeInit /\ [][DecodeNext]_vars

(***************************************************************************)
(* Properties                                                              *)
(***************************************************************************)
\* The last call of run called updateProxy, which returned nil.
UpdateProxyReturnedNil == lastTick.updated /\ lastTick.result = "ok"

\* The PublicPorts a cache holds.
Entries(c) == {c[p] : p \in DOMAIN c}

\* Splitting config on "," and decoding every item succeeds and yields exactly
\* the triples of c.
DecodesTo(config, c) ==
    LET items == Split(config, Comma)
    IN  /\ \A i \in 1..Len(items) : ~decodeMicroservice(items[i]).err
        /\ {decodeMicroservice(items[i]).port : i \in 1..Len(items)} = Entries(c)

\* C1: after a call of run in which updateProxy was called and returned nil, the
\* cluster matches the cache: for a non-empty cache the Deployment exists and its
\* last argument decodes to the cache's triples, and the Service exists with one
\* port per cache entry (name lower(queue), port = targetPort, TCP); for an empty
\* cache neither the Deployment nor the Service exists.
C1_ClusterMatchesCache ==
    UpdateProxyReturnedNil =>
        IF DOMAIN cache # {}
        THEN /\ dep # NotFound
             /\ Len(dep.Containers) > 0
             /\ Len(dep.Containers[1].Args) > 0
             /\ DecodesTo(dep.Containers[1].Args[Len(dep.Containers[1].Args)], cache)
             /\ svc # NotFound
             /\ Len(svc.Ports) = Cardinality(DOMAIN cache)
             /\ {svc.Ports[i] : i \in 1..Len(svc.Ports)}
                   = {[Name |-> ToLower(cache[p].Queue), Port |-> p, TargetPort |-> p,
                       Protocol |-> "TCP"] : p \in DOMAIN cache}
        ELSE dep = NotFound /\ svc = NotFound

\* C2: after a call of run whose fetch succeeded and whose updateProxy, if called,
\* returned nil, the cache is exactly the map port -> PublicPort of the fetched
\* (filtered) list: every fetched port is there with its protocol and queue, every
\* key is the port of its entry, nothing else is cached.
C2_CacheIsResponse ==
    (lastTick.fetched /\ lastTick.result = "ok") =>
        /\ DOMAIN cache = {lastTick.resp[i].Port : i \in 1..Len(lastTick.resp)}
        /\ \A i \in 1..Len(lastTick.resp) : cache[lastTick.resp[i].Port] = lastTick.resp[i]
        /\ \A p \in DOMAIN cache : cache[p].Port = p

\* A call of run that returned nil after rewriting an existing Deployment for a
\* one-port list: a port was overwritten or withdrawn.
C2_Witness ==
    /\ lastTick.fetched /\ lastTick.result = "ok" /\ lastTick.updated
    /\ Len(lastTick.resp) = 1
    /\ ops # <<>> /\ ops[1].verb = "update"

\* C3: round trip: for the cache, the empty one included, whatever order the
\* encoder visits it in, splitting createProxyConfig(cache) on "," and decoding
\* every item succeeds and yields exactly the cache's triples.
C3_RoundTrip ==
    \A order \in Orders(cache) : DecodesTo(createProxyConfig(cache, order), cache)

\* C4: a call of run that fetches the ports for which the call before it returned
\* nil calls no updateProxy, issues no Kubernetes write and sends no signal.
C4_Idempotent ==
    lastTick.repeat => (~lastTick.updated /\ ops = <<>> /\ recPc = "idle")

\* A repeated call for a non-empty list, with the Deployment in place.
C4_Witness == lastTick.repeat /\ Len(lastTick.resp) = 2 /\ dep # NotFound

\* C5: after a call of run that returned nil the Service does not exist with an
\* empty port list, and the engine issues no create and no update of a Service
\* with zero ports.
C5_NoZeroPortService ==
    /\ lastTick.result = "ok" => (svc = NotFound \/ Len(svc.Ports) > 0)
    /\ \A i \in 1..Len(ops) :
          (ops[i].kind = "Service" /\ ops[i].verb \in {"create", "update"})
              => Len(ops[i].obj.Ports) > 0

\* C6: every Deployment and Service the engine creates carries exactly one
\* owner reference, the engine's own Deployment, in the object it passes to the
\* create call.
C6_OwnerCoverage ==
    \A i \in 1..Len(ops) :
        ops[i].verb = "create" =>
            /\ Len(ops[i].obj.OwnerReferences) = 1
            /\ ops[i].obj.OwnerReferences[1] = getOwnerReference(EngineDeployment)
            /\ ops[i].ok =>
                  (IF ops[i].kind = "Deployment" THEN dep ELSE svc).OwnerReferences
                      = <<getOwnerReference(EngineDeployment)>>

\* One call of run has created the Deployment and the Service.
C6_Witness ==
    /\ Len(ops) = 2
    /\ ops[1].verb = "create" /\ ops[1].kind = "Deployment" /\ ops[1].ok
    /\ ops[2].verb = "create" /\ ops[2].kind = "Service" /\ ops[2].ok

\* C7: with a non-empty protocol filter, in every state, the one right after the
\* startup cache rebuild included, every cache entry's protocol equals the
\* filter, case ignored.
C7_FilterHonesty ==
    opt.ProtocolFilter # <<>> =>
        \A p \in DOMAIN cache : ToLower(cache[p].Protocol) = ToLower(opt.ProtocolFilter)

\* C8: the address of a successful set-default-proxy-address call is the most
\* recently resolved one, and the registered address never goes back to an
\* earlier one.
C8_RegistrarOrdering ==
    [][/\ registered' >= registered
       /\ (regLog'.outcome = "registered" /\ Len(addressChan') < Len(addressChan))
             => (registered' = resolved' /\ resolved' = lbAddr)]_vars

\* A registration that succeeded right after a failed iteration, for an address
\* the load balancer got after the engine started.
C8_Witness ==
    /\ regLog.outcome = "registered"
    /\ regLog.prev \in {"lbTimeout", "putFailed"}
    /\ registered = lbAddr /\ lbAddr > 1

\* C9: once LB discovery and the set-proxy RPC succeed for good, a Registrar
\* that has a failure to retry eventually registers an address.
C9_RegistrarNeverGivesUp ==
    (healthy /\ regPc = "retry") ~> (regLog.outcome = "registered")

\* C10: no producer is at a send on the channel while the channel holds 5
\* signals.
C10_SendsNeverBlock ==
    /\ ~(recPc = "send" /\ Len(addressChan) = ChanCap)
    /\ ~(regPc = "retry" /\ Len(addressChan) = ChanCap)

\* C11: a running engine does not stop on a tick's error: Run has not returned
\* after a call of run that returned an error.
C11_RunSurvivesTickErrors ==
    ~(recPc = "exited" /\ lastTick.result = "error")

\* C12: a call of run whose updateProxy returns an error leaves the cache as it
\* was before the call.
C12_CacheUntouchedOnError ==
    [][(recPc = "idle" /\ lastTick'.updated /\ lastTick'.result = "error")
          => cache' = cache]_vars

\* The live Deployment has its 3 arguments and the last one, which is not the
\* empty string, does not decode.
ConfigMalformed ==
    /\ dep # NotFound
    /\ ~checkProxyDeployment(dep)
    /\ getProxyConfig(dep).config # <<>>
    /\ generateCache(dep, FALSE).err

\* The ports of catalog as a cache.
Inventory ==
    [p \in {x.Port : x \in catalog} |-> CHOOSE x \in catalog : x.Port = p]

\* The Deployment's last argument is an encoding of the inventory.
Healed ==
    /\ dep # NotFound
    /\ ~checkProxyDeployment(dep)
    /\ \E order \in Orders(Inventory) :
          getProxyConfig(dep).config = createProxyConfig(Inventory, order)

\* A call of run failed, or the Controller returned something else than the
\* inventory.
Disturbed ==
    \/ lastTick.result = "error"
    \/ /\ lastTick.fetched
       /\ {lastTick.resp[i] : i \in 1..Len(lastTick.resp)} # catalog

\* C13: an engine that has started on a Deployment whose last argument does not
\* decode (its cache rebuild has read that Deployment and no call of run has
\* failed since),
\* beside a Controller that keeps returning the inventory, eventually has the
\* Deployment's last argument equal to the inventory's encoding.
C13_SelfHealing ==
    (/\ recPc = "exited" /\ lastTick = NoTick
     /\ ConfigMalformed /\ cache = generateCache(dep, FALSE).cache)
        ~> (Healed \/ Disturbed)

\* The live Deployment violates the shape invariant.
ShapeViolated == dep # NotFound /\ checkProxyDeployment(dep)

\* This step is a call of run that called updateProxy.
UpdateProxyCalled ==
    /\ recPc = "idle"
    /\ lastTick'.updated
    /\ reconcilerVars' # reconcilerVars

\* C14: a Deployment that violates the shape invariant is neither deleted nor
\* updated: every updateProxy that finds it returns an error and leaves it as
\* it is, also when the new config is empty.
C14_ShapeViolatorUntouched ==
    [][ShapeViolated =>
          /\ dep' = dep
          /\ UpdateProxyCalled => lastTick'.result = "error"]_vars

\* C15: a call of run that fetches an empty list while the cache is non-empty
\* and the Deployment and the Service both exist, and that returns nil, leaves
\* the cache empty, the Deployment deleted and the Service deleted.
C15_Teardown ==
    [][(/\ recPc = "idle"
        /\ DOMAIN cache # {} /\ dep # NotFound /\ svc # NotFound
        /\ reconcilerVars' # reconcilerVars
        /\ lastTick'.fetched /\ lastTick'.resp = <<>> /\ lastTick'.result = "ok")
          => (DOMAIN cache' = {} /\ dep' = NotFound /\ svc' = NotFound)]_vars

\* A teardown has happened: one call of run fetched an empty list and deleted
\* the Deployment, then the Service.
C15_Witness ==
    /\ lastTick.fetched /\ lastTick.resp = <<>> /\ lastTick.result = "ok"
    /\ Len(ops) = 2
    /\ ops[1].verb = "delete" /\ ops[1].kind = "Deployment" /\ ops[1].ok
    /\ ops[2].verb = "delete" /\ ops[2].kind = "Service" /\ ops[2].ok
    /\ DOMAIN cache = {} /\ dep = NotFound /\ svc = NotFound

\* C17: generateManagerOptions returns exactly one Options value, LoadBalancer
\* with no filter, the name http-proxy and no external address, unless both
\* HTTP_PROXY_ADDRESS and TCP_PROXY_ADDRESS are set; then it returns exactly
\* two, ClusterIP with filter http, name http-proxy and the HTTP address, and
\* ClusterIP with filter tcp, name tcp-proxy and the TCP address: distinct
\* names, and the first keeps its values after the second was written. The
\* engine instance runs with one of them.
C17_SupervisorOptions ==
    /\ \A h \in EnvAddresses, t \in EnvAddresses :
          LET opts == generateManagerOptions(h, t)
          IN  IF h # <<>> /\ t # <<>>
              THEN /\ Len(opts) = 2
                   /\ opts[1] = [ProxyServiceType |-> "ClusterIP",
                                 ProtocolFilter |-> <<"h", "t", "t", "p">>,
                                 ProxyName |-> "http-proxy",
                                 ProxyExternalAddress |-> h]
                   /\ opts[2] = [ProxyServiceType |-> "ClusterIP",
                                 ProtocolFilter |-> <<"t", "c", "p">>,
                                 ProxyName |-> "tcp-proxy",
                                 ProxyExternalAddress |-> t]
                   /\ opts[1].ProxyName # opts[2].ProxyName
              ELSE opts = << [ProxyServiceType |-> "LoadBalancer",
                              ProtocolFilter |-> <<>>,
                              ProxyName |-> "http-proxy",
                              ProxyExternalAddress |-> <<>>] >>
    /\ \E h \in EnvAddresses, t \in EnvAddresses :
          \E i \in 1..Len(generateManagerOptions(h, t)) :
             opt = generateManagerOptions(h, t)[i]
    /\ opt.ProtocolFilter = <<"h", "t", "t", "p">> => opt.ProxyName = "http-proxy"
    /\ opt.ProtocolFilter = <<"t", "c", "p">> => opt.ProxyName = "tcp-proxy"

\* The http instance of a process given two different addresses runs, and has
\* created its Deployment.
C17_Witness ==
    /\ opt.ProtocolFilter = <<"h", "t", "t", "p">>
    /\ opt.ProxyExternalAddress = <<"a">>
    /\ dep # NotFound /\ dep.Name = "http-proxy"
    /\ lastTick.updated /\ lastTick.result = "ok"

\* The items joined by single commas.
RECURSIVE JoinComma(_)
JoinComma(items) ==
    IF Len(items) = 0 THEN <<>>
    ELSE IF Len(items) = 1 THEN items[1]
    ELSE items[1] \o <<",">> \o JoinComma(Tail(items))

\* C18: for the cache, in whatever order the range visits it, createProxyConfig
\* returns the items protocol:port=>amqp:queue of createProxyString, one per
\* entry, joined by single commas: no leading separator, no trailing one, no
\* empty item; the empty cache gives the empty string.
C18_EncodingShape ==
    /\ createProxyString([Protocol |-> <<"t", "c", "p">>, Port |-> 5000,
                          Queue |-> <<"W", "6">>])
          = <<"t", "c", "p", ":", "5", "0", "0", "0", "=", ">", "a", "m", "q", "p", ":",
              "W", "6">>
    /\ \A order \in Orders(cache) :
          LET config == createProxyConfig(cache, order)
              n      == Len(order)
          IN  /\ config = JoinComma([i \in 1..n |-> createProxyString(cache[order[i]])])
              /\ n = 0 => config = <<>>
              /\ n > 0 =>
                    /\ config[1] # "," /\ config[Len(config)] # ","
                    /\ \A i \in 1..(Len(config) - 1) : ~(config[i] = "," /\ config[i + 1] = ",")
                    /\ Cardinality({i \in 1..Len(config) : config[i] = ","}) = n - 1

\* The engine has written the encoding of a cache of two entries into the
\* Deployment.
C18_Witness ==
    /\ Cardinality(DOMAIN cache) = 2
    /\ dep # NotFound
    /\ \E order \in Orders(cache) :
          dep.Containers[1].Args[3] = createProxyConfig(cache, order)

\* The non-empty caches over the ports the Controller and the cluster know:
\* every key is the port of its entry.
Snapshots ==
    LET U == PublicPorts \cup {PublicPort(Tcp, 443, Q1)}
        K == {x.Port : x \in U}
    IN  UNION {{c \in [k -> U] : \A p \in k : c[p].Port = p} : k \in (SUBSET K) \ {{}}}

\* C19: when the live Deployment's last argument is made of n well-formed items
\* with pairwise distinct ports (the encoding of a cache of n entries, in any
\* order), generateCache returns exactly n entries, and each item decodes,
\* alone, to the entry of its own port, protocol and queue.
C19_DecodeItemsIndependent ==
    (dep # NotFound /\ ~checkProxyDeployment(dep)) =>
        \A c \in Snapshots : \A order \in Orders(c) :
            getProxyConfig(dep).config = createProxyConfig(c, order) =>
                LET r     == generateCache(dep, FALSE)
                    items == Split(getProxyConfig(dep).config, Comma)
                IN  /\ ~r.err
                    /\ Cardinality(DOMAIN r.cache) = Len(order)
                    /\ r.cache = c
                    /\ Len(items) = Len(order)
                    /\ \A i \in 1..Len(order) :
                          /\ ~decodeMicroservice(items[i]).err
                          /\ decodeMicroservice(items[i]).port = c[order[i]]

\* A restarted engine has rebuilt a cache of two entries from the Deployment.
C19_Witness ==
    /\ recPc = "idle" /\ lastTick = NoTick
    /\ Cardinality(DOMAIN cache) = 2
    /\ dep # NotFound
    /\ Len(Split(getProxyConfig(dep).config, Comma)) = 2

\* s is a base-10 integer: an optional sign, then digits only.
IsBase10(s) ==
    LET body == IF s # <<>> /\ s[1] \in {"+", "-"} THEN Tail(s) ELSE s
    IN  /\ body # <<>>
        /\ \A i \in 1..Len(body) :
              body[i] \in {"0", "1", "2", "3", "4", "5", "6", "7", "8", "9"}

\* The item's protocol prefix, the text before its first ':', is not http,
\* http2 or tcp; or the text between that prefix's ':' and the first "=>" is
\* absent or is not a base-10 integer.
BadItem(item) ==
    LET colon  == Index(item, <<":">>)
        arrow  == Index(item, <<"=", ">">>)
        prefix == IF colon = -1 THEN item ELSE Slice(item, 0, colon)
    IN  \/ prefix \notin {<<"h", "t", "t", "p">>, <<"h", "t", "t", "p", "2">>,
                          <<"t", "c", "p">>}
        \/ colon = -1
        \/ arrow < colon + 1
        \/ ~IsBase10(Slice(item, colon + 1, arrow))

\* C20: decodeMicroservice returns a decode error, and no PublicPort, for every
\* item of the live Deployment's last argument whose protocol prefix is not
\* http, http2 or tcp, or whose port text between the prefix and "=>" is absent
\* or is not a base-10 integer.
C20_DecodeRejects ==
    (dep # NotFound /\ ~checkProxyDeployment(dep)) =>
        LET items == Split(getProxyConfig(dep).config, Comma)
        IN  \A i \in 1..Len(items) :
               BadItem(items[i]) => decodeMicroservice(items[i]) = DecodeError

\* The ports of a response that have the protocol, in the response's order.
ProtocolPart(R, protocol) == SelectSeq(R, LAMBDA p : ToLower(p.Protocol) = protocol)

LiveItems ==
    IF dep = NotFound \/ checkProxyDeployment(dep) THEN <<>>
    ELSE Split(getProxyConfig(dep).config, Comma)

\* Nothing follows "=>amqp:" in the item: the delimiter is missing, or the item
\* ends with it.
QueueAbsent(item) ==
    \/ Index(item, ArrowAmqp) = -1
    \/ Index(item, ArrowAmqp) + Len(ArrowAmqp) = Len(item)

\* C21: decodeMicroservice returns a decode error for every item of the live
\* Deployment's last argument in which nothing follows "=>amqp:", the delimiter
\* missing or last, and it returns no PublicPort whose queue is empty.
C21_EmptyQueueRejected ==
    \A i \in 1..Len(LiveItems) :
        LET r == decodeMicroservice(LiveItems[i])
        IN  /\ QueueAbsent(LiveItems[i]) => r = DecodeError
            /\ ~r.err => r.port.Queue # <<>>

\* The item is a protocol among http, http2 and tcp, ":", a base-10 port,
\* "=>amqp:" and a queue that is not empty.
ValidHead(item) ==
    /\ ~BadItem(item)
    /\ Index(item, ArrowAmqp) = Index(item, Arrow)
    /\ ~QueueAbsent(item)

\* C22: for every item of the live Deployment's last argument that has a valid
\* protocol and port, decodeMicroservice returns the PublicPort whose queue is
\* all the text after the first "=>amqp:", whatever that text holds.
C22_QueueVerbatim ==
    \A i \in 1..Len(LiveItems) :
        LET item == LiveItems[i]
            r    == decodeMicroservice(item)
        IN  ValidHead(item) =>
               /\ ~r.err
               /\ r.port.Queue = Slice(item, Index(item, ArrowAmqp) + Len(ArrowAmqp), Len(item))

\* C23: no step of the engine, tick, channel send, Registrar iteration or
\* restart, changes the Controller's inventory of public ports; the one thing
\* a step changes at the Controller is the default proxy address, which only a
\* Registrar iteration that ends registered sets, to the address it resolved.
C23_OneWayFollower ==
    [][/\ catalog' = catalog
       /\ registered' # registered =>
             /\ regPc = "recv"
             /\ regLog'.outcome = "registered"
             /\ registered' = resolved']_vars

\* The engine has fetched the ports, written the cluster and registered an
\* address, and the Controller's users still publish what they did.
C23_Witness ==
    /\ lastTick.fetched /\ lastTick.updated
    /\ regLog.outcome = "registered" /\ registered # 0
    /\ catalog = PublicPorts

C25_OwnerReferenceFields ==
    \A i \in 1..Len(ops) :
        ops[i].verb = "create" =>
            \A j \in 1..Len(ops[i].obj.OwnerReferences) :
                ops[i].obj.OwnerReferences[j] =
                    [APIVersion |-> "apps/v1", Kind |-> "Deployment",
                     Name |-> EngineDeployment.Name, UID |-> EngineDeployment.UID]

\* C26: every Service the engine passes to a create call has the type of the
\* Options, the selector name=<proxy name>, and externalTrafficPolicy Local
\* when that type is LoadBalancer, empty when it is any other.
C26_ServiceFactory ==
    \A i \in 1..Len(ops) :
        (ops[i].verb = "create" /\ ops[i].kind = "Service") =>
            /\ ops[i].obj.Type = opt.ProxyServiceType
            /\ ops[i].obj.Selector = opt.ProxyName
            /\ opt.ProxyServiceType = "LoadBalancer" =>
                  ops[i].obj.ExternalTrafficPolicy = "Local"
            /\ opt.ProxyServiceType # "LoadBalancer" =>
                  ops[i].obj.ExternalTrafficPolicy = ""

\* An engine configured with ClusterIP has created its Service.
C26_Witness ==
    /\ opt.ProxyServiceType = "ClusterIP"
    /\ \E i \in 1..Len(ops) :
          ops[i].verb = "create" /\ ops[i].kind = "Service" /\ ops[i].ok
    /\ svc # NotFound /\ svc.Type = "ClusterIP"

\* C27: no Deployment the engine passes to a create call has the empty string
\* as its configuration argument: with an empty cache and no Deployment found,
\* updateProxy creates none.
C27_NoEmptyDeployment ==
    \A i \in 1..Len(ops) :
        (ops[i].verb = "create" /\ ops[i].kind = "Deployment") =>
            getProxyConfig(ops[i].obj).config # <<>>

\* The last call of run created the Service, and the API server accepted it.
ServiceCreated ==
    \E i \in 1..Len(ops) : ops[i].verb = "create" /\ ops[i].kind = "Service" /\ ops[i].ok

\* The signal carries the pre-declared external address: the empty signal when
\* none is declared.
CarriesDeclaredAddress(signal) == signal = Nil => opt.ProxyExternalAddress = <<>>

\* What init has left in the channel, before the Registrar has received: at
\* most one signal, and none when the Service does not exist.
InitSignal ==
    (recPc = "start" /\ regLog = NoRegistration) =>
        /\ Len(addressChan) <= 1
        /\ svc = NotFound => addressChan = <<>>
        /\ \A i \in 1..Len(addressChan) : CarriesDeclaredAddress(addressChan[i])

\* The Reconciler is at updateProxy's send exactly when the call of run under
\* way has created the Service.
SendIffCreated == recPc = "send" <=> (ServiceCreated /\ lastTick.result = "pending")

\* A step that lengthens the channel is updateProxy's send after a create of
\* the Service, or init's send on a Service that exists, of one signal.
EnqueueStep ==
    Len(addressChan') > Len(addressChan) =>
        /\ Len(addressChan') = Len(addressChan) + 1
        /\ CarriesDeclaredAddress(addressChan'[Len(addressChan')])
        /\ \/ recPc = "send" /\ recPc' = "idle" /\ ServiceCreated
           \/ recPc' = "start" /\ svc # NotFound

\* C28: the Reconciler side enqueues a signal in two situations only: once at
\* init, and only if the Service exists, and once after each create of the
\* Service that the API server accepted; a call of run that updates or deletes
\* the Service, or whose create fails, enqueues nothing; and every signal
\* carries the pre-declared external address, empty when none is declared.
C28_SignalSources ==
    /\ [](InitSignal /\ SendIffCreated)
    /\ [][EnqueueStep]_vars

\* C29: when the last call of run has deleted the Service and returned nil, the
\* Service no longer answers a Get: the deletion returned only once the API
\* server had dropped the object.
C29_DeleteAndWait ==
    (/\ lastTick.result = "ok"
     /\ \E i \in 1..Len(ops) :
           ops[i].verb = "delete" /\ ops[i].kind = "Service" /\ ops[i].ok)
        => svc = NotFound

\* C30: the signal the Registrar requeues after a set-default-proxy-address
\* call that failed carries the address that call was given, and the signal it
\* requeues after a load balancer wait that timed out is empty.
C30_RetryPayload ==
    [][(/\ regPc = "retry" /\ regPc' = "recv"
        /\ Len(addressChan') = Len(addressChan) + 1)
          => LET signal == addressChan'[Len(addressChan')]
             IN  /\ regLog.outcome = "putFailed" => (signal # Nil /\ signal = resolved)
                 /\ regLog.outcome = "lbTimeout" => signal = Nil]_vars

\* C31: an error of the startup cache rebuild does not make Run return: Run
\* has never returned before its first call of run.
C31_RebuildErrorTolerated == ~(recPc = "exited" /\ lastTick = NoTick)

\* The Deployment and the Service the other Manager gets from the cluster.
PeerObjects ==
    IF peer.opt.ProxyName = opt.ProxyName THEN <<dep, svc>> ELSE <<peer.dep, peer.svc>>

C33_EveryPortExposed ==
    (/\ peer # NoPeer
     /\ lastTick.fetched /\ lastTick.result = "ok"
     /\ peer.lastTick.fetched /\ peer.lastTick.result = "ok"
     /\ peer.lastTick.raw = lastTick.raw) =>
        \A i \in 1..Len(lastTick.raw) :
            LET port == lastTick.raw[i]
            IN  port.Protocol \in {Http, Http2, Tcp} =>
                   (port \in Entries(cache)) # (port \in Entries(peer.cache))

\* C34: every item of every configuration string the engine writes into the
\* Deployment, in a create or an update the API server accepts, decodes without
\* error.
C34_WrittenConfigDecodes ==
    \A i \in 1..Len(ops) :
        (/\ ops[i].kind = "Deployment" /\ ops[i].verb \in {"create", "update"}
         /\ ops[i].ok) =>
            LET items == Split(getProxyConfig(ops[i].obj).config, Comma)
            IN  \A j \in 1..Len(items) : ~decodeMicroservice(items[j]).err

\* C35: the Registrar is never at the send of a self-retry while its channel,
\* which it alone receives from, is full.
C35_RegistrarNotSelfBlocked == ~(regPc = "retry" /\ Len(addressChan) = ChanCap)

\* The last call of run issued a Delete that the API server answered with
\* not-found: the Delete was not accepted and the object is absent.
DeleteAnsweredNotFound ==
    \E i \in 1..Len(ops) :
        /\ ops[i].verb = "delete" /\ ~ops[i].ok
        /\ (IF ops[i].kind = "Deployment" THEN dep ELSE svc) = NotFound

\* C36: a Delete of the Deployment or the Service that answers not-found is a
\* success: the call of run that issued it does not return an error.
C36_DeleteAbsentIsSuccess == ~(DeleteAnsweredNotFound /\ lastTick.result = "error")

\* The Deployment branch of the call of updateProxy made in this step returned
\* an error: the call wrote nothing, or its one write, on the Deployment, failed.
DeploymentBranchFailed ==
    /\ recPc = "idle"
    /\ lastTick'.updated /\ lastTick'.result = "error"
    /\ \/ ops' = <<>>
       \/ ops'[1].kind = "Deployment" /\ ~ops'[1].ok

\* C37: a call of updateProxy writes the Deployment before the Service, and
\* one whose Deployment branch returns an error leaves the Service as it is,
\* issues no write on it and sends no signal.
C37_DeploymentBranchFirst ==
    [][/\ \A i \in 1..Len(ops'), j \in 1..Len(ops') :
             (ops'[i].kind = "Deployment" /\ ops'[j].kind = "Service") => i < j
       /\ DeploymentBranchFailed =>
             /\ svc' = svc
             /\ \A i \in 1..Len(ops') : ops'[i].kind # "Service"
             /\ addressChan' = addressChan
             /\ recPc' = "exited"]_vars

\* A call of run has failed on its write of the Deployment while the Service
\* held other ports than the cache.
C37_Witness ==
    /\ lastTick.updated /\ lastTick.result = "error"
    /\ Len(ops) = 1 /\ ops[1].kind = "Deployment" /\ ~ops[1].ok
    /\ svc # NotFound
    /\ {svc.Ports[i].Port : i \in 1..Len(svc.Ports)} # DOMAIN cache

\* C38: when the startup cache rebuild has returned an error, the cache is
\* empty.
C38_FailedRebuildEmptyCache ==
    (recPc = "exited" /\ lastTick = NoTick) => cache = EmptyCache

\* The two queues are the same but for the case of their letters.
SameButCase(a, b) ==
    /\ Len(a) = Len(b)
    /\ \A i \in 1..Len(a) : LowerChar(a[i]) = LowerChar(b[i])

\* The elements of the sequence, taken through f, are pairwise distinct.
PairwiseDistinct(seq, f(_)) ==
    \A i \in 1..Len(seq), j \in 1..Len(seq) : i # j => f(seq[i]) # f(seq[j])

\* C39: the port list of every Service the engine passes to a create or an
\* update has one port per cache entry, with pairwise distinct port numbers,
\* and its port names are pairwise distinct exactly when no two cache entries
\* have queues that are the same but for letter case.
C39_ServicePortNames ==
    \A i \in 1..Len(ops) :
        (ops[i].kind = "Service" /\ ops[i].verb \in {"create", "update"}) =>
            LET ports == ops[i].obj.Ports
            IN  /\ Len(ports) = Cardinality(DOMAIN cache)
                /\ PairwiseDistinct(ports, LAMBDA p : p.Port)
                /\ PairwiseDistinct(ports, LAMBDA p : p.Name)
                       <=> \A x \in DOMAIN cache, y \in DOMAIN cache :
                              x # y => ~SameButCase(cache[x].Queue, cache[y].Queue)

\* The engine has passed to a create or an update a Service with two ports of
\* one name, built from two queues that differ in letter case only.
C39_Witness ==
    \E i \in 1..Len(ops) :
        /\ ops[i].kind = "Service" /\ ops[i].verb \in {"create", "update"}
        /\ Len(ops[i].obj.Ports) = 2
        /\ ops[i].obj.Ports[1].Name = ops[i].obj.Ports[2].Name
        /\ ops[i].obj.Ports[1].Port # ops[i].obj.Ports[2].Port

=============================================================================
